---- MODULE Spec2Model ----
(***************************************************************************)
(* Model of src/main.py: the FastAPI service with the POST /generate_pptx  *)
(* handler (generate_pptx) and the GET /test handler (test_database).      *)
(*                                                                         *)
(* Every request is served in a slot r: the slot holds the locals of one   *)
(* invocation of a handler (payload, prs, bio, headers, response) and the  *)
(* position of that invocation (pc).  A text is a sequence of one-character*)
(* strings, so that replace(), slicing and concatenation are computed.     *)
(* An optional value is <<>> (absent, Python None) or <<v>>.               *)
(***************************************************************************)
EXTENDS Integers, Sequences, FiniteSets, TLC

VARIABLES pc, kind, body, payload, prs, it, bio, headers, stream, status,
          response, obs

vars == <<pc, kind, body, payload, prs, it, bio, headers, stream, status,
          response, obs>>

(***************************************************************************)
(* Bounds of the model.                                                    *)
(***************************************************************************)
MaxTopicLen == 2
MaxSlides == 2
MaxBullets == 2
MaxErrLen == 52
MaxColls == 11

(***************************************************************************)
(* Generic helpers.                                                        *)
(***************************************************************************)
None == <<>>
Some(v) == <<v>>

SeqsUpTo(S, n) == UNION {[1..k -> S] : k \in 0..n}

Min(a, b) == IF a < b THEN a ELSE b

\* Python slicing s[:n]
Take(s, n) == SubSeq(s, 1, Min(Len(s), n))

(***************************************************************************)
(* String literals of the source.                                          *)
(***************************************************************************)
DefaultTopic == <<"Y", "o", "g", "a", ":", " ", "H", "i", "s", "t", "o", "r", "y", " ", "&", " ", "A", "d", "v", "a", "n", "t", "a", "g", "e", "s">>
DefaultSubtitle == <<"A", "u", "t", "o", "-", "g", "e", "n", "e", "r", "a", "t", "e", "d", " ", "p", "r", "e", "s", "e", "n", "t", "a", "t", "i", "o", "n">>
Suffix == <<".", "p", "p", "t", "x">>
DispositionPrefix == <<"a", "t", "t", "a", "c", "h", "m", "e", "n", "t", ";", " ", "f", "i", "l", "e", "n", "a", "m", "e", "=", "\"">>
Quote == <<"\"">>
FontPt == 22

(***************************************************************************)
(* Request bodies of POST /generate_pptx, before validation.  A field of   *)
(* the JSON object is None when the key is omitted and Some(v) otherwise;  *)
(* author is Some(None) for JSON null.                                     *)
(***************************************************************************)
Chars == {"a", " ", "_"}
Topics == SeqsUpTo(Chars, MaxTopicLen) \cup {DefaultTopic}
AuthorTexts == {<<>>, <<"J", "o">>}
TitleTexts == {<<"I">>, <<"P">>}
BulletTexts == {<<"A">>, <<"B">>}

RawSlides ==
  [title : {None} \cup {Some(t) : t \in TitleTexts},
   bullets : {None} \cup {Some(bs) : bs \in SeqsUpTo(BulletTexts, MaxBullets)}]

\* generate_pptx uses topic and author (lines 98-100, 125) and the slides
\* (lines 104-119) independently of each other: the bodies vary topic and
\* author over all their values with a few slide lists, and the slide list
\* over all its values with topic and author omitted
FewSlideLists ==
  {None, Some(<<>>),
   Some(<<[title |-> None, bullets |-> None]>>),
   Some(<<[title |-> Some(<<"I">>), bullets |-> Some(<<<<"A">>>>)]>>)}

Bodies ==
  [topic : {None} \cup {Some(t) : t \in Topics},
   slides : FewSlideLists,
   author : {None, Some(None)} \cup {Some(Some(a)) : a \in AuthorTexts}]
  \cup
  [topic : {None},
   slides : {None} \cup {Some(ss) : ss \in SeqsUpTo(RawSlides, MaxSlides)},
   author : {None}]

(***************************************************************************)
(* Request validation: the pydantic models Slide and PresentationPayload.  *)
(***************************************************************************)
\* Slide: title is required (Field(...)), bullets has default_factory=list
SlideValid(rs) == rs.title # None

ParseSlide(rs) ==
  [title |-> rs.title[1],
   bullets |-> IF rs.bullets = None THEN <<>> ELSE rs.bullets[1]]

\* a faulty variant of ValidBody: topic is treated as a required field
ValidBodyTopicRequired(b) ==
  /\ b.topic # None
  /\ b.slides # None
  /\ \A k \in 1..Len(b.slides[1]) : SlideValid(b.slides[1][k])

\* PresentationPayload: slides is required, topic and author have defaults
ValidBody(b) ==
  /\ b.slides # None
  /\ \A k \in 1..Len(b.slides[1]) : SlideValid(b.slides[1][k])

ParsePayload(b) ==
  [topic |-> IF b.topic = None THEN DefaultTopic ELSE b.topic[1],
   slides |-> [k \in 1..Len(b.slides[1]) |-> ParseSlide(b.slides[1][k])],
   author |-> IF b.author = None THEN None ELSE b.author[1]]

NoBody == [topic |-> None, slides |-> None, author |-> None]
NoPayload == [topic |-> <<>>, slides |-> <<>>, author |-> None]

(***************************************************************************)
(* The document library as generate_pptx uses it.  A presentation is the   *)
(* sequence of its slides; a slide has a layout, a title text and the      *)
(* paragraphs of placeholder 1 (subtitle or body); a paragraph has a text, *)
(* a level and a font size (0: not set).                                   *)
(***************************************************************************)
EmptyPara == [text |-> <<>>, level |-> 0, size |-> 0]

\* Presentation(): a document without slides
NewPresentation == <<>>

\* the text frame of a fresh placeholder holds one empty paragraph
NewTextFrame == <<EmptyPara>>

\* tf.clear(): all paragraphs but the first are removed, the first is emptied
TfClear(tf) == <<EmptyPara>>

\* a faulty variant of AddSlide: the new slide is inserted in front
AddSlideFront(doc, slide) == <<slide>> \o doc

\* prs.slides.add_slide(layout): the new slide is appended
AddSlide(doc, slide) == Append(doc, slide)

\* Python truthiness of payload.author: None and "" are falsy
Truthy(author) == author # None /\ author[1] # <<>>

\* a faulty variant of Subtitle: the default is used only for None
SubtitleIfNotNone(author) == IF author # None THEN author[1] ELSE DefaultSubtitle

\* payload.author or "Auto-generated presentation"
Subtitle(author) == IF Truthy(author) THEN author[1] ELSE DefaultSubtitle

\* lines 96-100: the title slide
TitleSlide(p) ==
  [layout |-> "title", title |-> p.topic,
   body |-> <<[text |-> Subtitle(p.author), level |-> 0, size |-> 0]>>]

\* a faulty variant of TargetParagraph: every bullet gets a new paragraph
TargetParagraphAlwaysNew(tf, first) ==
  [tf |-> Append(tf, EmptyPara), at |-> Len(tf) + 1]

\* lines 112-116: the paragraph a bullet is written to
TargetParagraph(tf, first) ==
  IF first THEN [tf |-> tf, at |-> 1]
           ELSE [tf |-> Append(tf, EmptyPara), at |-> Len(tf) + 1]

\* lines 110-119: the loop over s.bullets, from bullet k on
RECURSIVE BulletLoop(_, _, _, _)
BulletLoop(tf, bullets, k, first) ==
  IF k > Len(bullets) THEN tf
  ELSE LET t == TargetParagraph(tf, first)
           p == [text |-> bullets[k], level |-> 0, size |-> FontPt]
       IN BulletLoop([t.tf EXCEPT ![t.at] = p], bullets, k + 1, FALSE)

\* lines 105-119: one content slide
ContentSlide(s) ==
  [layout |-> "bullet", title |-> s.title,
   body |-> BulletLoop(TfClear(NewTextFrame), s.bullets, 1, TRUE)]

\* prs.save(): one part per slide, in slide order
Serialize(doc) == [k \in 1..Len(doc) |-> [part |-> k, slide |-> doc[k]]]

\* what a reader of the streamed package sees: the slides of its parts
ReadDoc(parts) == [k \in 1..Len(parts) |-> parts[k].slide]

NewBytesIO == [data |-> <<>>, pos |-> 0]

\* StreamingResponse(bio): the buffer is read from its current position
ReadFrom(b) == SubSeq(b.data, b.pos + 1, Len(b.data))

\* a faulty variant of Replace: only the first space is replaced
ReplaceFirst(t) ==
  [k \in 1..Len(t) |->
     IF t[k] = " " /\ (\A j \in 1..(k - 1) : t[j] # " ") THEN "_" ELSE t[k]]

\* payload.topic.replace(' ', '_')
Replace(t) == [k \in 1..Len(t) |-> IF t[k] = " " THEN "_" ELSE t[k]]

\* lines 125-128
Filename(topic) == Replace(topic) \o Suffix
ContentDisposition(topic) == DispositionPrefix \o Filename(topic) \o Quote

\* a faulty variant of DocOwner: the document is one object shared by all requests
DocShared(r) == 1

\* prs is a local of the invocation: slot r works on its own document
DocOwner(r) == r

(***************************************************************************)
(* GET /test: the texts of the response.  A text is a literal of the       *)
(* source (lit) followed by an interpolated value (val); the check mark,   *)
(* cross and warning symbols of the literals are written (ok), (x), (!).   *)
(***************************************************************************)
ERR_LIMIT == 50
LIST_LIMIT == 10

Text(lit, val) == [lit |-> lit, val |-> val]

PyNone == Text("None", <<>>)
RUNNING == Text("(ok) Running", <<>>)
NOT_AVAILABLE == Text("(x) Not Available", <<>>)
AVAILABLE == Text("(ok) Available", <<>>)
CONFIGURED == Text("(ok) Configured", <<>>)
CONNECTED_NAME == Text("(ok) Connected", <<>>)
WORKING == Text("(ok) Connected & Working", <<>>)
NOT_INITIALIZED == Text("(!)  Available but not initialized", <<>>)
NOT_FOUND == Text("(x) Database module not found (run enable-database first)", <<>>)
SET == Text("(ok) Set", <<>>)
NOT_SET == Text("(x) Not Set", <<>>)
NOT_CONNECTED == Text("Not Connected", <<>>)
CONNECTED == Text("Connected", <<>>)

\* a faulty variant of ErrText: the message is interpolated whole
ErrTextWhole(msg) == msg

\* str(e)[:50]
ErrText(msg) == Take(msg, ERR_LIMIT)

\* line 69 and line 76
ConnectedButError(msg) == Text("(!)  Connected but Error: ", ErrText(msg))
ImportFailed(msg) == Text("(x) Error: ", ErrText(msg))

\* a faulty variant of FirstCollections: the whole listing is reported
FirstCollectionsAll(names) == names

\* collections[:10]
FirstCollections(names) == Take(names, LIST_LIMIT)

\* a faulty variant of EnvStatus: an empty value counts as set
EnvStatusNotNone(v) == IF v # None THEN SET ELSE NOT_SET

\* "Set" if os.getenv(NAME) else "Not Set": None and "" are falsy
EnvStatus(v) == IF v # None /\ v[1] # <<>> THEN SET ELSE NOT_SET

\* lines 44-51
InitialResponse ==
  [backend |-> RUNNING, database |-> NOT_AVAILABLE, database_url |-> PyNone,
   database_name |-> PyNone, connection_status |-> NOT_CONNECTED,
   collections |-> <<>>]

(***************************************************************************)
(* Exceptions of the database collaborator: a class and a message.         *)
(***************************************************************************)
ExcKinds == {"ModuleNotFoundError", "ImportError", "RuntimeError"}

\* a faulty variant of Catches: a clause catches its own class only
CatchesExactClass(clause, k) == clause = k

\* an except clause catches the class and its subclasses
Catches(clause, k) ==
  \/ clause = "Exception"
  \/ clause = "ImportError" /\ k \in {"ImportError", "ModuleNotFoundError"}

\* lines 73-76: the handlers of the outer try
OuterExcept(resp, k, msg) ==
  IF Catches("ImportError", k)
    THEN [resp |-> [resp EXCEPT !.database = NOT_FOUND], escaped |-> FALSE]
  ELSE IF Catches("Exception", k)
    THEN [resp |-> [resp EXCEPT !.database = ImportFailed(msg)], escaped |-> FALSE]
  ELSE [resp |-> resp, escaped |-> TRUE]

\* lines 68-69: the handler of the inner try, then the outer ones
InnerExcept(resp, k, msg) ==
  IF Catches("Exception", k)
    THEN [resp |-> [resp EXCEPT !.database = ConnectedButError(msg)], escaped |-> FALSE]
  ELSE OuterExcept(resp, k, msg)

(***************************************************************************)
(* What the collaborators answer: error messages, the handle's name, the   *)
(* listings of list_collection_names (a collection name is a number) and   *)
(* the values of the environment variables.                                *)
(***************************************************************************)
Msg(n) == [k \in 1..n |-> IF k % 2 = 1 THEN "e" ELSE "r"]
Msgs == {Msg(n) : n \in 0..MaxErrLen}
Ascending(n) == [k \in 1..n |-> k]
Descending(n) == [k \in 1..n |-> n + 1 - k]
Listings == {Ascending(n) : n \in 0..MaxColls} \cup {Descending(n) : n \in 0..MaxColls}
DbNames == {<<"d", "b">>}
EnvValues == {None, Some(<<>>), Some(<<"v">>)}

NoObs ==
  [import |-> "", importKind |-> "", importMsg |-> <<>>,
   name |-> "", nameKind |-> "", nameVal |-> <<>>, nameMsg |-> <<>>,
   list |-> "", listKind |-> "", listNames |-> <<>>, listMsg |-> <<>>,
   url |-> None, dbname |-> None]

\* the inputs of a run: request bodies and answers of the collaborators
Inputs ==
  [bodies |-> Bodies, kinds |-> ExcKinds, msgs |-> Msgs, lists |-> Listings,
   names |-> DbNames, env |-> EnvValues]

ConcBodies ==
  {[topic |-> Some(<<"a", " ">>), author |-> Some(Some(<<"J", "o">>)),
    slides |-> Some(<<[title |-> Some(<<"I">>), bullets |-> Some(<<<<"A">>, <<"B">>>>)]>>)],
   [topic |-> None, author |-> None,
    slides |-> Some(<<[title |-> Some(<<"P">>), bullets |-> None],
                      [title |-> Some(<<"I">>), bullets |-> Some(<<<<"B">>>>)]>>)],
   [topic |-> Some(<<"_">>), author |-> Some(None), slides |-> None]}

ConcInputs ==
  [bodies |-> ConcBodies, kinds |-> {"RuntimeError"}, msgs |-> {Msg(2)},
   lists |-> {Descending(2)}, names |-> DbNames, env |-> {None, Some(<<"v">>)}]

(***************************************************************************)
(* The state after start-up: every slot is free.                           *)
(***************************************************************************)
InitSlots(S) ==
  /\ pc = [r \in S |-> "idle"]
  /\ kind = [r \in S |-> "none"]
  /\ body = [r \in S |-> NoBody]
  /\ payload = [r \in S |-> NoPayload]
  /\ prs = [r \in S |-> NewPresentation]
  /\ it = [r \in S |-> 0]
  /\ bio = [r \in S |-> NewBytesIO]
  /\ headers = [r \in S |-> <<>>]
  /\ stream = [r \in S |-> <<>>]
  /\ status = [r \in S |-> 0]
  /\ response = [r \in S |-> InitialResponse]
  /\ obs = [r \in S |-> NoObs]

Slots == DOMAIN pc

Init == InitSlots({1})
InitConc == InitSlots({1, 2})

(***************************************************************************)
(* POST /generate_pptx                                                     *)
(***************************************************************************)
\* a request arrives with body b
PostGeneratePptx(r, D) ==
  /\ pc[r] = "idle"
  /\ \E b \in D.bodies : body' = [body EXCEPT ![r] = b]
  /\ kind' = [kind EXCEPT ![r] = "pptx"]
  /\ pc' = [pc EXCEPT ![r] = "validate"]
  /\ UNCHANGED <<payload, prs, it, bio, headers, stream, status, response, obs>>

\* the framework validates the body against PresentationPayload (line 87)
ValidatePayload(r) ==
  /\ pc[r] = "validate"
  /\ IF ValidBody(body[r])
       THEN /\ payload' = [payload EXCEPT ![r] = ParsePayload(body[r])]
            /\ pc' = [pc EXCEPT ![r] = "title"]
            /\ UNCHANGED status
       ELSE /\ status' = [status EXCEPT ![r] = 422]
            /\ pc' = [pc EXCEPT ![r] = "done"]
            /\ UNCHANGED payload
  /\ UNCHANGED <<kind, body, prs, it, bio, headers, stream, response, obs>>

\* lines 93-100
TitleStep(r) ==
  /\ pc[r] = "title"
  /\ prs' = [prs EXCEPT ![DocOwner(r)] = AddSlide(NewPresentation, TitleSlide(payload[r]))]
  /\ it' = [it EXCEPT ![r] = 0]
  /\ pc' = [pc EXCEPT ![r] = "slides"]
  /\ UNCHANGED <<kind, body, payload, bio, headers, stream, status, response, obs>>

\* lines 104-119: one iteration of the loop over payload.slides
SlideStep(r) ==
  /\ pc[r] = "slides"
  /\ it[r] < Len(payload[r].slides)
  /\ prs' = [prs EXCEPT ![DocOwner(r)] =
               AddSlide(prs[DocOwner(r)], ContentSlide(payload[r].slides[it[r] + 1]))]
  /\ it' = [it EXCEPT ![r] = it[r] + 1]
  /\ UNCHANGED <<pc, kind, body, payload, bio, headers, stream, status, response, obs>>

\* lines 121-123: bio = BytesIO(); prs.save(bio); bio.seek(0)
SaveStep(r) ==
  /\ pc[r] = "slides"
  /\ it[r] = Len(payload[r].slides)
  /\ LET data == Serialize(prs[DocOwner(r)])
         written == [data |-> NewBytesIO.data \o data, pos |-> NewBytesIO.pos + Len(data)]
     IN bio' = [bio EXCEPT ![r] = [written EXCEPT !.pos = 0]]
  /\ pc' = [pc EXCEPT ![r] = "respond"]
  /\ UNCHANGED <<kind, body, payload, prs, it, headers, stream, status, response, obs>>

\* lines 125-134
RespondStep(r) ==
  /\ pc[r] = "respond"
  /\ headers' = [headers EXCEPT ![r] = ContentDisposition(payload[r].topic)]
  /\ stream' = [stream EXCEPT ![r] = ReadFrom(bio[r])]
  /\ status' = [status EXCEPT ![r] = 200]
  /\ pc' = [pc EXCEPT ![r] = "done"]
  /\ UNCHANGED <<kind, body, payload, prs, it, bio, response, obs>>

(***************************************************************************)
(* GET /test                                                               *)
(***************************************************************************)
\* a request arrives; lines 44-51
GetTest(r) ==
  /\ pc[r] = "idle"
  /\ kind' = [kind EXCEPT ![r] = "test"]
  /\ response' = [response EXCEPT ![r] = InitialResponse]
  /\ pc' = [pc EXCEPT ![r] = "import"]
  /\ UNCHANGED <<body, payload, prs, it, bio, headers, stream, status, obs>>

\* the outcome of a statement of the try block: the exception escaped the
\* handler (the request fails), or the handler goes on at nxt
Continue(r, res, nxt) ==
  /\ response' = [response EXCEPT ![r] = res.resp]
  /\ IF res.escaped
       THEN /\ pc' = [pc EXCEPT ![r] = "done"]
            /\ status' = [status EXCEPT ![r] = 500]
       ELSE /\ pc' = [pc EXCEPT ![r] = nxt]
            /\ UNCHANGED status

\* line 55, and lines 57, 70-71 when db is None
ImportStep(r, D) ==
  /\ pc[r] = "import"
  /\ \/ \E k \in D.kinds, m \in D.msgs :
          /\ obs' = [obs EXCEPT ![r].import = "raises", ![r].importKind = k,
                                ![r].importMsg = m]
          /\ Continue(r, OuterExcept(response[r], k, m), "env")
     \/ /\ obs' = [obs EXCEPT ![r].import = "none"]
        /\ Continue(r, [resp |-> [response[r] EXCEPT !.database = NOT_INITIALIZED],
                        escaped |-> FALSE], "env")
     \/ /\ obs' = [obs EXCEPT ![r].import = "present"]
        /\ Continue(r, [resp |-> response[r], escaped |-> FALSE], "name")
  /\ UNCHANGED <<kind, body, payload, prs, it, bio, headers, stream>>

\* lines 58-61: hasattr(db, 'name') is false, or db.name has a value, or
\* reading it raises an exception that hasattr does not swallow
NameStep(r, D) ==
  /\ pc[r] = "name"
  /\ LET r1 == [response[r] EXCEPT !.database = AVAILABLE,
                                   !.database_url = CONFIGURED]
     IN \/ /\ obs' = [obs EXCEPT ![r].name = "absent"]
           /\ Continue(r, [resp |-> [r1 EXCEPT !.database_name = CONNECTED_NAME,
                                               !.connection_status = CONNECTED],
                           escaped |-> FALSE], "list")
        \/ \E v \in D.names :
             /\ obs' = [obs EXCEPT ![r].name = "value", ![r].nameVal = v]
             /\ Continue(r, [resp |-> [r1 EXCEPT !.database_name = Text("", v),
                                                 !.connection_status = CONNECTED],
                             escaped |-> FALSE], "list")
        \/ \E k \in D.kinds, m \in D.msgs :
             /\ obs' = [obs EXCEPT ![r].name = "raises", ![r].nameKind = k,
                                   ![r].nameMsg = m]
             /\ Continue(r, OuterExcept(r1, k, m), "env")
  /\ UNCHANGED <<kind, body, payload, prs, it, bio, headers, stream>>

\* lines 64-69
ListStep(r, D) ==
  /\ pc[r] = "list"
  /\ \/ \E l \in D.lists :
          /\ obs' = [obs EXCEPT ![r].list = "ok", ![r].listNames = l]
          /\ Continue(r, [resp |-> [response[r] EXCEPT
                                      !.collections = FirstCollections(l),
                                      !.database = WORKING],
                          escaped |-> FALSE], "env")
     \/ \E k \in D.kinds, m \in D.msgs :
          /\ obs' = [obs EXCEPT ![r].list = "raises", ![r].listKind = k,
                                ![r].listMsg = m]
          /\ Continue(r, InnerExcept(response[r], k, m), "env")
  /\ UNCHANGED <<kind, body, payload, prs, it, bio, headers, stream>>

\* lines 80-81
EnvStep(r, D) ==
  /\ pc[r] = "env"
  /\ \E u \in D.env, n \in D.env :
       /\ obs' = [obs EXCEPT ![r].url = u, ![r].dbname = n]
       /\ response' = [response EXCEPT ![r].database_url = EnvStatus(u),
                                       ![r].database_name = EnvStatus(n)]
  /\ pc' = [pc EXCEPT ![r] = "return"]
  /\ UNCHANGED <<kind, body, payload, prs, it, bio, headers, stream, status>>

\* line 83
ReturnStep(r) ==
  /\ pc[r] = "return"
  /\ status' = [status EXCEPT ![r] = 200]
  /\ pc' = [pc EXCEPT ![r] = "done"]
  /\ UNCHANGED <<kind, body, payload, prs, it, bio, headers, stream, response, obs>>

\* the response has been sent: the locals of the invocation are dropped
Close(r) ==
  /\ pc[r] = "done"
  /\ pc' = [pc EXCEPT ![r] = "idle"]
  /\ kind' = [kind EXCEPT ![r] = "none"]
  /\ body' = [body EXCEPT ![r] = NoBody]
  /\ payload' = [payload EXCEPT ![r] = NoPayload]
  /\ prs' = [prs EXCEPT ![r] = NewPresentation]
  /\ it' = [it EXCEPT ![r] = 0]
  /\ bio' = [bio EXCEPT ![r] = NewBytesIO]
  /\ headers' = [headers EXCEPT ![r] = <<>>]
  /\ stream' = [stream EXCEPT ![r] = <<>>]
  /\ status' = [status EXCEPT ![r] = 0]
  /\ response' = [response EXCEPT ![r] = InitialResponse]
  /\ obs' = [obs EXCEPT ![r] = NoObs]

Step(r, D) ==
  \/ PostGeneratePptx(r, D)
  \/ ValidatePayload(r)
  \/ TitleStep(r)
  \/ SlideStep(r)
  \/ SaveStep(r)
  \/ RespondStep(r)
  \/ GetTest(r)
  \/ ImportStep(r, D)
  \/ NameStep(r, D)
  \/ ListStep(r, D)
  \/ EnvStep(r, D)
  \/ ReturnStep(r)
  \/ Close(r)

Next == \E r \in Slots : Step(r, Inputs)
NextConc == \E r \in Slots : Step(r, ConcInputs)

Spec == Init /\ [][Next]_vars
SpecConc == InitConc /\ [][NextConc]_vars

(***************************************************************************)
(* What a finished request looks like.                                     *)
(***************************************************************************)
Served(r, k) == pc[r] = "done" /\ kind[r] = k
Streamed(r) == Served(r, "pptx") /\ status[r] = 200
Answered(r) == Served(r, "test") /\ status[r] = 200

\* what the client sent, with the documented defaults for omitted fields
SentTopic(r) == IF body[r].topic = None THEN DefaultTopic ELSE body[r].topic[1]
SentSlides(r) == body[r].slides[1]
SentBullets(r, n) ==
  IF SentSlides(r)[n].bullets = None THEN <<>> ELSE SentSlides(r)[n].bullets[1]
Doc(r) == ReadDoc(stream[r])

MissingRequired(b) ==
  \/ b.slides = None
  \/ \E k \in 1..Len(b.slides[1]) : b.slides[1][k].title = None

(***************************************************************************)
(* C1: the document streamed for an accepted payload has len(slides)+1     *)
(* slides: the title slide first, then one content slide per submitted     *)
(* slide, in the submitted order, carrying that slide's title.             *)
(***************************************************************************)
C1_SlideCount ==
  \A r \in Slots : Streamed(r) =>
    /\ Len(Doc(r)) = Len(SentSlides(r)) + 1
    /\ Doc(r)[1].layout = "title"
    /\ \A n \in 1..Len(SentSlides(r)) :
         /\ Doc(r)[n + 1].layout = "bullet"
         /\ Doc(r)[n + 1].title = SentSlides(r)[n].title[1]

C1_Witness ==
  \E r \in Slots :
    /\ Streamed(r)
    /\ Len(SentSlides(r)) = 2
    /\ SentSlides(r)[1].title # SentSlides(r)[2].title

(***************************************************************************)
(* C2 as stated: the body of content slide N has exactly len(bullets[N])   *)
(* paragraphs, the k-th with the text of the k-th bullet, also when the    *)
(* bullets list is empty.                                                  *)
(***************************************************************************)
C2_Original ==
  \A r \in Slots : Streamed(r) =>
    \A n \in 1..Len(SentSlides(r)) :
      /\ Len(Doc(r)[n + 1].body) = Len(SentBullets(r, n))
      /\ \A k \in 1..Len(SentBullets(r, n)) :
           Doc(r)[n + 1].body[k].text = SentBullets(r, n)[k]

(***************************************************************************)
(* C2 amended: the body of content slide N has len(bullets[N]) paragraphs  *)
(* when the list is not empty, the k-th with the text of the k-th bullet,  *)
(* and one paragraph with the empty text when the list is empty.           *)
(***************************************************************************)
C2_Paragraphs ==
  \A r \in Slots : Streamed(r) =>
    \A n \in 1..Len(SentSlides(r)) :
      LET bs == SentBullets(r, n)
          ps == Doc(r)[n + 1].body
      IN IF bs = <<>>
           THEN Len(ps) = 1 /\ ps[1].text = <<>>
           ELSE /\ Len(ps) = Len(bs)
                /\ \A k \in 1..Len(bs) : ps[k].text = bs[k]

C2_Witness ==
  \E r \in Slots :
    /\ Streamed(r)
    /\ Len(SentSlides(r)) = 2
    /\ SentBullets(r, 1) = <<>>
    /\ Len(Doc(r)[2].body) = 1
    /\ Len(SentBullets(r, 2)) = 2
    /\ SentBullets(r, 2)[1] # SentBullets(r, 2)[2]

(***************************************************************************)
(* C3: the Content-Disposition header is attachment; filename="F", where F *)
(* is the topic with every space replaced by an underscore and every other *)
(* character unchanged, followed by .pptx.                                 *)
(***************************************************************************)
C3_Filename ==
  \A r \in Slots : Streamed(r) =>
    LET t == SentTopic(r)
        h == headers[r]
        a == Len(DispositionPrefix)
    IN /\ Len(h) = a + Len(t) + Len(Suffix) + 1
       /\ SubSeq(h, 1, a) = DispositionPrefix
       /\ \A k \in 1..Len(t) : h[a + k] = IF t[k] = " " THEN "_" ELSE t[k]
       /\ SubSeq(h, a + Len(t) + 1, a + Len(t) + Len(Suffix)) = Suffix
       /\ h[Len(h)] = "\""

C3_Witness ==
  \E r \in Slots :
    /\ Streamed(r)
    /\ Len(SentTopic(r)) = 2
    /\ SentTopic(r)[1] = " "
    /\ SentTopic(r)[2] = " "

(***************************************************************************)
(* C4: GET /test never fails: whatever the import, the handle's name and   *)
(* the listing do, the request ends with a response of six fields, and     *)
(* when the module is missing the database field says so.                  *)
(***************************************************************************)
C4_NeverRaises ==
  \A r \in Slots : kind[r] = "test" =>
    /\ status[r] # 500
    /\ DOMAIN response[r] = {"backend", "database", "database_url",
                             "database_name", "connection_status", "collections"}
    /\ Served(r, "test") =>
         /\ status[r] = 200
         /\ (obs[r].import = "raises" /\ obs[r].importKind = "ModuleNotFoundError")
              => response[r].database = NOT_FOUND

C4_Witness ==
  \E r \in Slots :
    /\ Answered(r)
    /\ obs[r].name = "raises"
    /\ obs[r].nameKind = "RuntimeError"

(***************************************************************************)
(* C5: with the module located, a None handle gives "Available but not     *)
(* initialized", a listing that succeeded gives "Connected & Working", and *)
(* a listing that raised gives "Connected but Error" followed by the first *)
(* 50 characters of the message at most.                                   *)
(***************************************************************************)
C5_DatabaseStatus ==
  \A r \in Slots : Answered(r) =>
    /\ obs[r].import = "none" => response[r].database = NOT_INITIALIZED
    /\ (obs[r].import = "present" /\ obs[r].list = "ok")
         => response[r].database = WORKING
    /\ (obs[r].import = "present" /\ obs[r].list = "raises") =>
         LET d == response[r].database
             m == obs[r].listMsg
         IN /\ d.lit = ConnectedButError(<<>>).lit
            /\ Len(d.val) = Min(Len(m), ERR_LIMIT)
            /\ \A k \in 1..Len(d.val) : d.val[k] = m[k]

C5_Witness ==
  \E r \in Slots :
    /\ Answered(r)
    /\ obs[r].list = "raises"
    /\ Len(obs[r].listMsg) > ERR_LIMIT

(***************************************************************************)
(* C6: database_url and database_name of a response are "Set" exactly when *)
(* the environment variable has a non-empty value and "Not Set" otherwise; *)
(* they carry neither a variable's value nor the handle's name.            *)
(***************************************************************************)
NonEmptyValue(v) == v # None /\ Len(v[1]) > 0

C6_EnvPresenceOnly ==
  \A r \in Slots : Answered(r) =>
    /\ response[r].database_url = (IF NonEmptyValue(obs[r].url) THEN SET ELSE NOT_SET)
    /\ response[r].database_name = (IF NonEmptyValue(obs[r].dbname) THEN SET ELSE NOT_SET)
    /\ response[r].database_url.val = <<>>
    /\ response[r].database_name.val = <<>>

C6_Witness ==
  \E r \in Slots :
    /\ Answered(r)
    /\ obs[r].name = "value"
    /\ obs[r].url = Some(<<>>)
    /\ NonEmptyValue(obs[r].dbname)

(***************************************************************************)
(* C7 as stated: the title slide's title is the topic; its subtitle is the *)
(* author whenever the payload carries one, the empty string included, and *)
(* the default placeholder only when the author is null or omitted.        *)
(***************************************************************************)
SentAuthor(r) == IF body[r].author = None THEN None ELSE body[r].author[1]

C7_Original ==
  \A r \in Slots : Streamed(r) =>
    /\ Doc(r)[1].title = SentTopic(r)
    /\ Len(Doc(r)[1].body) = 1
    /\ Doc(r)[1].body[1].text =
         IF SentAuthor(r) # None THEN SentAuthor(r)[1] ELSE DefaultSubtitle

(***************************************************************************)
(* C7 amended: the title slide's title is the topic; its subtitle is the   *)
(* author when the payload carries a non-empty author, and the default     *)
(* placeholder when the author is null, omitted or the empty string.       *)
(***************************************************************************)
C7_TitleSlide ==
  \A r \in Slots : Streamed(r) =>
    /\ Doc(r)[1].title = SentTopic(r)
    /\ Len(Doc(r)[1].body) = 1
    /\ Doc(r)[1].body[1].text =
         IF SentAuthor(r) # None /\ Len(SentAuthor(r)[1]) > 0
           THEN SentAuthor(r)[1] ELSE DefaultSubtitle

C7_Witness ==
  \E r \in Slots :
    /\ Streamed(r)
    /\ SentAuthor(r) = Some(<<>>)
    /\ Doc(r)[1].body[1].text = DefaultSubtitle

(***************************************************************************)
(* C8: a body without slides, or with a slide without title, is rejected   *)
(* before generate_pptx runs: no document, no buffer, no stream.  A body   *)
(* that omits only topic, author or bullets is accepted, with topic        *)
(* "Yoga: History & Advantages", author null and bullets [].               *)
(***************************************************************************)
C8_Validation ==
  \A r \in Slots : (kind[r] = "pptx" /\ pc[r] # "validate") =>
    IF MissingRequired(body[r])
      THEN /\ pc[r] = "done" /\ status[r] = 422
           /\ payload[r] = NoPayload
           /\ prs[r] = NewPresentation /\ bio[r] = NewBytesIO
           /\ stream[r] = <<>> /\ headers[r] = <<>>
      ELSE /\ status[r] # 422
           /\ body[r].topic = None => payload[r].topic = DefaultTopic
           /\ body[r].author = None => payload[r].author = None
           /\ \A n \in 1..Len(SentSlides(r)) :
                SentSlides(r)[n].bullets = None => payload[r].slides[n].bullets = <<>>

C8_Witness ==
  \E r \in Slots :
    /\ Served(r, "pptx")
    /\ status[r] = 422
    /\ body[r].slides # None
    /\ body[r].topic # None

(***************************************************************************)
(* C9: under any interleaving of the requests, each response is the one    *)
(* the request gets when it runs alone, and a step of one request changes  *)
(* the locals of no other request.                                         *)
(***************************************************************************)
RECURSIVE AloneSlides(_, _, _)
AloneSlides(doc, slides, n) ==
  IF n > Len(slides) THEN doc
  ELSE AloneSlides(Append(doc, ContentSlide(slides[n])), slides, n + 1)

AlonePptx(b) ==
  IF MissingRequired(b)
    THEN [status |-> 422, headers |-> <<>>, doc |-> <<>>]
    ELSE LET p == ParsePayload(b)
         IN [status |-> 200, headers |-> ContentDisposition(p.topic),
             doc |-> AloneSlides(<<TitleSlide(p)>>, p.slides, 1)]

AloneTest(o) ==
  LET r1 == [InitialResponse EXCEPT !.database = AVAILABLE,
                                    !.database_url = CONFIGURED]
      r2 == [r1 EXCEPT !.connection_status = CONNECTED,
                       !.database_name = IF o.name = "absent" THEN CONNECTED_NAME
                                         ELSE Text("", o.nameVal)]
      tried ==
        IF o.import = "raises"
          THEN OuterExcept(InitialResponse, o.importKind, o.importMsg).resp
        ELSE IF o.import = "none"
          THEN [InitialResponse EXCEPT !.database = NOT_INITIALIZED]
        ELSE IF o.name = "raises"
          THEN OuterExcept(r1, o.nameKind, o.nameMsg).resp
        ELSE IF o.list = "ok"
          THEN [r2 EXCEPT !.collections = FirstCollections(o.listNames),
                          !.database = WORKING]
        ELSE InnerExcept(r2, o.listKind, o.listMsg).resp
  IN [tried EXCEPT !.database_url = EnvStatus(o.url),
                   !.database_name = EnvStatus(o.dbname)]

Locals(r) ==
  <<pc[r], kind[r], body[r], payload[r], prs[r], it[r], bio[r], headers[r],
    stream[r], status[r], response[r], obs[r]>>

AsIfAlone ==
  \A r \in Slots :
    /\ Served(r, "pptx") =>
         /\ status[r] = AlonePptx(body[r]).status
         /\ headers[r] = AlonePptx(body[r]).headers
         /\ Doc(r) = AlonePptx(body[r]).doc
    /\ Served(r, "test") =>
         /\ status[r] = 200
         /\ response[r] = AloneTest(obs[r])

Isolated ==
  \A r, q \in Slots : (r # q /\ Locals(r)' # Locals(r)) => Locals(q)' = Locals(q)

C9_NoInterference == []AsIfAlone /\ [][Isolated]_vars

C9_Witness ==
  /\ Slots = {1, 2}
  /\ Streamed(1)
  /\ kind[2] = "pptx" /\ pc[2] = "slides" /\ it[2] = 1
  /\ body[1] # body[2]
  /\ Len(Doc(1)) = 3

(***************************************************************************)
(* C10 as stated: collections has at most 10 entries, the first min(n, 10) *)
(* names of a listing that succeeded and [] in every other case, and       *)
(* connection_status is "Connected" exactly when the handle is present.    *)
(***************************************************************************)
CollectionsBounded(r) ==
  /\ Len(response[r].collections) <= LIST_LIMIT
  /\ IF obs[r].import = "present" /\ obs[r].list = "ok"
       THEN LET l == obs[r].listNames
                c == response[r].collections
            IN /\ Len(c) = Min(Len(l), LIST_LIMIT)
               /\ \A k \in 1..Len(c) : c[k] = l[k]
       ELSE response[r].collections = <<>>

C10_Original ==
  \A r \in Slots : Answered(r) =>
    /\ CollectionsBounded(r)
    /\ response[r].connection_status = CONNECTED <=> obs[r].import = "present"

(***************************************************************************)
(* C10 amended: collections as stated; connection_status is "Connected"    *)
(* exactly when the handle is present and reading its name did not raise   *)
(* (line 61 is not reached when db.name raises).                           *)
(***************************************************************************)
C10_Collections ==
  \A r \in Slots : Answered(r) =>
    /\ CollectionsBounded(r)
    /\ response[r].connection_status = CONNECTED
         <=> (obs[r].import = "present" /\ obs[r].name # "raises")
    /\ response[r].connection_status \in {CONNECTED, NOT_CONNECTED}

C10_Witness ==
  \E r \in Slots :
    /\ Answered(r)
    /\ obs[r].list = "ok"
    /\ Len(obs[r].listNames) > LIST_LIMIT

====
